---- MODULE Spec2Model ----
(***************************************************************************)
(* A model of weather_floor_lamp.py: one run of main() reads the weather  *)
(* forecast, maps the rain chance to a colour (RGB) or a colour           *)
(* temperature, and posts three signed commands to the lamp.              *)
(*                                                                         *)
(* Strings are sequences of one-character strings, so that formatting,    *)
(* parsing and concatenation are computed, not assumed.  Python floats    *)
(* are IEEE-754 doubles, modelled bit by bit (TLC's integers are 32 bits  *)
(* wide, a double's mantissa is 53).                                      *)
(***************************************************************************)
EXTENDS Integers, Sequences, FiniteSets

VARIABLES
    pc,         \* where main() is: "start", "weather_wait", "post_ready",
                \* "post_wait", "done", "raised"; "map_*" in MapSpec
    mode,       \* USE_COLOR_TEMPERATURE
    weather,    \* the weather service's answer, once received
    rain,       \* main()'s local rain
    plan,       \* the three (command, parameter) pairs set_lamp_* will post
    idx,        \* the post_command call in progress, 1..3
    sent,       \* the POST requests put on the wire, in order
    signLog,    \* what each generate_sign call returned, in order
    clock,      \* time.time() in milliseconds
    wire,       \* every outbound HTTP exchange started, in order
    inflight,   \* the number of exchanges started and not yet completed
    exc,        \* the exception that escaped main(), or "none"
    ret,        \* main()'s return value, or "none"
    arg,        \* MapSpec: the argument of the mapping function
    rgbOut,     \* MapSpec: map_rain_to_rgb(arg)
    ctOut       \* MapSpec: map_rain_to_ct(arg)

vars == <<pc, mode, weather, rain, plan, idx, sent, signLog, clock,
          wire, inflight, exc, ret, arg, rgbOut, ctOut>>

(***************************************************************************)
(* Bounds of the model                                                     *)
(***************************************************************************)
\* uuid4() draws from NonceStr(1..NoncePool)
NoncePool == 3
\* the percentages the weather service reports in a slot: one inside 0..100,
\* one above it
LowPct == 30
HighPct == 250
\* a slot value that is a JSON number instead of a string
NumSlot == 40
\* MapSpec: the arguments are -ArgBelow..ArgAbove
ArgBelow == 10
ArgAbove == 160
\* fraction bits kept beyond a double's mantissa when a quotient is expanded
ExtraFracBits == 11
\* the width of a limb when a bit sequence is multiplied
LimbBits == 12
\* time.time() * 1000 when main() starts
StartMs == 98

(***************************************************************************)
(* Program constants                                                       *)
(***************************************************************************)
CT_MIN == 2700
CT_MAX == 6500
PCT_MAX == 100
BRIGHTNESS == 100
BRIGHTNESS_MIN == 1
RGB_MAX == 255
\* Python's float is an IEEE-754 double: 53 bits of mantissa
DBL_MANT_DIG == 53

Max2(a, b) == IF a >= b THEN a ELSE b
Min2(a, b) == IF a <= b THEN a ELSE b

(***************************************************************************)
(* Binary numbers: sequences of bits, most significant first               *)
(***************************************************************************)
RECURSIVE NatToBits(_)
NatToBits(n) ==
    IF n = 0 THEN << >> ELSE Append(NatToBits(n \div 2), n % 2)

RECURSIVE BitsToNat(_)
BitsToNat(b) ==
    IF b = << >> THEN 0
    ELSE 2 * BitsToNat(SubSeq(b, 1, Len(b) - 1)) + b[Len(b)]

Zeros(k) == [i \in 1..k |-> 0]

RECURSIVE Pow2(_)
Pow2(n) == IF n = 0 THEN 1 ELSE 2 * Pow2(n - 1)

\* 2^n modulo d, by repeated squaring
RECURSIVE Pow2Mod(_, _)
Pow2Mod(n, d) ==
    IF n = 0 THEN 1 % d
    ELSE LET h == Pow2Mod(n \div 2, d)
         IN  (h * h * (IF n % 2 = 1 THEN 2 ELSE 1)) % d

\* what is left of rem / d after k fraction bits: rem * 2^k modulo d
DivRem(rem, d, k) == (rem * Pow2Mod(k, d)) % d

\* the first k fraction bits of rem / d, for rem < d
DivBits(rem, d, k) ==
    [i \in 1..k |-> IF 2 * DivRem(rem, d, i - 1) >= d THEN 1 ELSE 0]

\* b + 1 on a bit sequence that is not all ones
IncBits(b) ==
    LET z == CHOOSE i \in 1..Len(b) :
                 b[i] = 0 /\ \A j \in (i + 1)..Len(b) : b[j] = 1
    IN  [i \in 1..Len(b) |-> IF i < z THEN b[i] ELSE IF i = z THEN 1 ELSE 0]

\* a bit sequence as limbs of LimbBits bits, most significant first
Limbs(b) ==
    LET pad == (LimbBits - (Len(b) % LimbBits)) % LimbBits
        all == Zeros(pad) \o b
    IN  [i \in 1..(Len(all) \div LimbBits) |->
            BitsToNat(SubSeq(all, (i - 1) * LimbBits + 1, i * LimbBits))]

\* the limbs' bits
Unlimbs(l) ==
    [i \in 1..(Len(l) * LimbBits) |->
        (l[((i - 1) \div LimbBits) + 1]
            \div Pow2(LimbBits - 1 - ((i - 1) % LimbBits))) % 2]

\* c * l on limbs: the product's low Len(l) limbs in d, the carry out in k
RECURSIVE MulLimbs(_, _)
MulLimbs(l, c) ==
    IF l = << >> THEN [d |-> << >>, k |-> 0]
    ELSE LET low == MulLimbs(Tail(l), c)
             v   == Head(l) * c + low.k
         IN  [d |-> <<v % Pow2(LimbBits)>> \o low.d, k |-> v \div Pow2(LimbBits)]

\* c * b: the product's low Len(b) bits in d, what is carried out of them in k
MulBits(b, c) ==
    LET p    == MulLimbs(Limbs(b), c)
        bits == NatToBits(p.k) \o Unlimbs(p.d)
        cut  == Len(bits) - Len(b)
    IN  [d |-> SubSeq(bits, cut + 1, Len(bits)),
         k |-> BitsToNat(SubSeq(bits, 1, cut))]

(***************************************************************************)
(* A non-negative real in binary: ip are the bits before the point, fp     *)
(* those after it; st says that the exact value is larger than the bits    *)
(* by less than one unit of the last bit.                                  *)
(***************************************************************************)
\* n / d exactly, to DBL_MANT_DIG + ExtraFracBits fraction bits
ExactDiv(n, d) ==
    LET k == DBL_MANT_DIG + ExtraFracBits
    IN  [ip |-> NatToBits(n \div d),
         fp |-> DivBits(n % d, d, k),
         st |-> DivRem(n % d, d, k) # 0]

\* c * x for an exact x
MulSmall(x, c) ==
    LET p   == MulBits(x.ip \o x.fp, c)
        all == NatToBits(p.k) \o p.d
        n   == Len(all) - Len(x.fp)
    IN  [ip |-> SubSeq(all, 1, n), fp |-> SubSeq(all, n + 1, Len(all)), st |-> FALSE]

\* x + n for an exact x
AddNat(x, n) ==
    [ip |-> NatToBits(BitsToNat(x.ip) + n), fp |-> x.fp, st |-> FALSE]

\* x rounded to the nearest double, ties to even
RoundToDouble(x) ==
    LET bits == <<0>> \o x.ip \o x.fp
        n    == Len(bits)
        ones == {i \in 1..n : bits[i] = 1}
    IN  IF ones = {} THEN [ip |-> x.ip, fp |-> x.fp, st |-> FALSE]
        ELSE
        LET lead  == CHOOSE i \in ones : \A j \in ones : i <= j
            last  == lead + DBL_MANT_DIG - 1
        IN  IF last >= n THEN [ip |-> x.ip, fp |-> x.fp, st |-> FALSE]
            ELSE
            LET keep   == SubSeq(bits, 1, last)
                guard  == bits[last + 1]
                sticky == x.st \/ (\E j \in (last + 2)..n : bits[j] = 1)
                up     == guard = 1 /\ (sticky \/ bits[last] = 1)
                kept   == (IF up THEN IncBits(keep) ELSE keep) \o Zeros(n - last)
                p      == Len(x.ip) + 1
            IN  [ip |-> SubSeq(kept, 1, p), fp |-> SubSeq(kept, p + 1, n),
                 st |-> FALSE]

\* int(x): the integer part
Trunc(x) == BitsToNat(x.ip)

\* int(a + c * (n / d)) in double arithmetic, for naturals a, c, n, d
FloatAffine(a, c, n, d) ==
    Trunc(RoundToDouble(AddNat(RoundToDouble(MulSmall(
        RoundToDouble(ExactDiv(n, d)), c)), a)))

(***************************************************************************)
(* Mapping: rain % -> RGB or CT                                            *)
(***************************************************************************)
\* a bug map_rain_to_rgb could have: bucket edges compared with < for <=
map_rain_to_rgb_strict(r) ==
    IF r = 0 THEN <<255, 127, 0>>
    ELSE IF r < 20 THEN <<255, 255, 0>>
    ELSE IF r < 40 THEN <<127, 255, 0>>
    ELSE IF r < 60 THEN <<0, 255, 255>>
    ELSE IF r < 80 THEN <<0, 127, 255>>
    ELSE <<0, 0, 255>>

map_rain_to_rgb(r) ==
    IF r = 0 THEN <<255, 127, 0>>
    ELSE IF r <= 20 THEN <<255, 255, 0>>
    ELSE IF r <= 40 THEN <<127, 255, 0>>
    ELSE IF r <= 60 THEN <<0, 255, 255>>
    ELSE IF r <= 80 THEN <<0, 127, 255>>
    ELSE <<0, 0, 255>>

\* a bug map_rain_to_ct could have: the percentage is not capped at 100
map_rain_to_ct_unclamped(r) ==
    FloatAffine(CT_MIN, CT_MAX - CT_MIN, Max2(0, r), PCT_MAX)

map_rain_to_ct(r) ==
    LET clamped == Max2(0, Min2(PCT_MAX, r))
    IN  FloatAffine(CT_MIN, CT_MAX - CT_MIN, clamped, PCT_MAX)

(***************************************************************************)
(* Strings                                                                 *)
(***************************************************************************)
DigitChars == <<"0", "1", "2", "3", "4", "5", "6", "7", "8", "9">>

IsDigit(c) == \E d \in 1..10 : DigitChars[d] = c

DigitVal(c) == (CHOOSE d \in 1..10 : DigitChars[d] = c) - 1

\* str(n) for an integer n >= 0
RECURSIVE Decimal(_)
Decimal(n) ==
    IF n < 10 THEN <<DigitChars[n + 1]>>
    ELSE Append(Decimal(n \div 10), DigitChars[(n % 10) + 1])

\* int(s) for a non-empty string of digits
RECURSIVE ParseInt(_)
ParseInt(s) ==
    IF s = << >> THEN 0
    ELSE 10 * ParseInt(SubSeq(s, 1, Len(s) - 1)) + DigitVal(s[Len(s)])

ACCESS_TOKEN == <<"t", "o", "k">>
SECRET == <<"s", "e", "c">>
DEVICE_ID == <<"F", "L", "1">>
DEFAULT_PARAMETER == <<"d", "e", "f", "a", "u", "l", "t">>

(***************************************************************************)
(* JSON values of the weather answer: a tag and the text of the value      *)
(***************************************************************************)
Absent == [t |-> "absent", v |-> << >>]
Str(s) == [t |-> "str", v |-> s]
Num(n) == [t |-> "num", v |-> Decimal(n)]

\* Python's truth value of a JSON string or number: "" and 0 are false
Truthy(j) ==
    /\ j.t \in {"str", "num"}
    /\ j.v # << >>
    /\ ~(j.t = "num" /\ \A i \in 1..Len(j.v) : j.v[i] = "0")

\* the weather service writes a percentage as "30%", an unknown one as "--%"
PctString(n) == Append(Decimal(n), "%")
UnknownPct == <<"-", "-", "%">>

SlotNames == {"T00_06", "T06_12", "T12_18", "T18_24"}

SlotPcts == {LowPct, HighPct}

SlotValues ==
    {Absent, Str(<< >>), Str(UnknownPct), Num(NumSlot)}
        \cup {Str(PctString(p)) : p \in SlotPcts}

NoSlots == [s \in SlotNames |-> Absent]

\* the answers whose chanceOfRain is a JSON object
MappingResponses ==
    {[kind |-> "cor_mapping", cor |-> c] :
        c \in {f \in [SlotNames -> SlotValues] :
                  f["T00_06"] \in {Absent, Str(PctString(HighPct))}}}

\* requests.get, raise_for_status, r.json or the subscripts of line 71 raise
CaughtKinds ==
    {"transport_error", "http_error", "not_json", "no_forecasts",
     "empty_forecasts", "no_chanceOfRain"}

WeatherResponses ==
    {[kind |-> k, cor |-> NoSlots] : k \in CaughtKinds \cup {"cor_not_mapping"}}
        \cup MappingResponses

(***************************************************************************)
(* Weather API helpers.  A call's outcome is [exc, val]: the exception it  *)
(* raises ("none" when it returns) and the value it returns.               *)
(***************************************************************************)
Return(x) == [exc |-> "none", val |-> x]
Raise(e) == [exc |-> e, val |-> 0]

\* re.sub(r"\D", "", s)
StripNonDigits(s) == SelectSeq(s, IsDigit)

to_int_pct(s) ==
    IF ~Truthy(s) THEN Return(0)                      \* s or "" is ""
    ELSE IF s.t # "str" THEN Raise("TypeError")       \* re.sub on a number
    ELSE LET digits == StripNonDigits(s.v)
         IN  IF digits = << >> THEN Return(0) ELSE Return(ParseInt(digits))

\* rain.get(name, "")
DictGet(cor, name) == IF cor[name] = Absent THEN Str(<< >>) ELSE cor[name]

Max3(a, b, c) == Max2(a, Max2(b, c))

\* a bug get_today_rain_percent_max_all could have: T00_06 is read too
get_today_rain_percent_max_4slots(resp) ==
    IF resp.kind \in CaughtKinds THEN Return(0)
    ELSE IF resp.kind # "cor_mapping" THEN Raise("AttributeError")
    ELSE LET z == to_int_pct(DictGet(resp.cor, "T00_06"))
             a == to_int_pct(DictGet(resp.cor, "T06_12"))
             b == to_int_pct(DictGet(resp.cor, "T12_18"))
             c == to_int_pct(DictGet(resp.cor, "T18_24"))
         IN  IF z.exc # "none" THEN z
             ELSE IF a.exc # "none" THEN a
             ELSE IF b.exc # "none" THEN b
             ELSE IF c.exc # "none" THEN c
             ELSE Return(Max2(z.val, Max3(a.val, b.val, c.val)))

get_today_rain_percent_max_all(resp) ==
    IF resp.kind \in CaughtKinds THEN Return(0)
    ELSE IF resp.kind # "cor_mapping" THEN Raise("AttributeError")
    ELSE LET a == to_int_pct(DictGet(resp.cor, "T06_12"))
             b == to_int_pct(DictGet(resp.cor, "T12_18"))
             c == to_int_pct(DictGet(resp.cor, "T18_24"))
         IN  IF a.exc # "none" THEN a
             ELSE IF b.exc # "none" THEN b
             ELSE IF c.exc # "none" THEN c
             ELSE Return(Max3(a.val, b.val, c.val))

(***************************************************************************)
(* SwitchBot authentication & command sending                              *)
(***************************************************************************)
\* base64(HMAC-SHA256(key, msg)), as a term: equal only for equal key and msg
HmacSha256B64(key, msg) == [alg |-> "hmac-sha256-b64", key |-> key, msg |-> msg]

\* str(uuid.uuid4()): the n-th value of the pool
NonceStr(n) == <<"u">> \o Decimal(n)

\* generate_sign with the nonce uuid4() drew and the clock's reading
generate_sign(token, secret, nonce, now) ==
    LET t == Decimal(now)
    IN  [t |-> t, sign |-> HmacSha256B64(secret, token \o t \o nonce),
         nonce |-> nonce]

\* the request post_command puts on the wire
PostRequest(device_id, command, parameter, sg) ==
    [device |-> device_id,
     headers |-> [Authorization |-> ACCESS_TOKEN, t |-> sg.t, sign |-> sg.sign,
                  nonce |-> sg.nonce],
     body |-> [command |-> command, parameter |-> parameter,
               commandType |-> "command"]]

\* how the device service answers a POST: a JSON object with statusCode 100,
\* a JSON object with another statusCode, a RequestException (transport,
\* HTTP status, or a body that is not JSON: requests.exceptions.JSONDecodeError
\* is a RequestException since requests 2.27), a JSON body that is not an object
DeviceOutcomes == {"ok100", "okOther", "requestError", "nonObject"}

\* what post_command does with the answer
post_command_result(outcome) ==
    IF outcome = "requestError" THEN Return("None")
    ELSE IF outcome = "nonObject" THEN Raise("AttributeError")   \* payload.get
    ELSE Return(outcome)

(***************************************************************************)
(* Floor Lamp control functions                                            *)
(***************************************************************************)
clamp_brightness(b) == Max2(BRIGHTNESS_MIN, Min2(BRIGHTNESS, b))

ClampRgb(v) == Max2(0, Min2(RGB_MAX, v))

Cmd(command, parameter) == [command |-> command, parameter |-> parameter]

set_lamp_rgb(color, brightness) ==
    <<Cmd("setBrightness", Decimal(clamp_brightness(brightness))),
      Cmd("setColor", Decimal(ClampRgb(color[1])) \o <<":">>
                        \o Decimal(ClampRgb(color[2])) \o <<":">>
                        \o Decimal(ClampRgb(color[3]))),
      Cmd("turnOn", DEFAULT_PARAMETER)>>

set_lamp_ct(color_temperature, brightness) ==
    <<Cmd("setBrightness", Decimal(clamp_brightness(brightness))),
      Cmd("setColorTemperature",
          Decimal(Max2(CT_MIN, Min2(CT_MAX, color_temperature)))),
      Cmd("turnOn", DEFAULT_PARAMETER)>>

\* the branch of main() on USE_COLOR_TEMPERATURE
LampCommands(m, r) ==
    IF m THEN set_lamp_ct(map_rain_to_ct(r), BRIGHTNESS)
    ELSE set_lamp_rgb(map_rain_to_rgb(r), BRIGHTNESS)

(***************************************************************************)
(* One run of main()                                                       *)
(***************************************************************************)
NoWeather == [kind |-> "none", cor |-> NoSlots]

Exchange(method, service) == [method |-> method, service |-> service]

Init ==
    /\ pc = "start"
    /\ mode \in BOOLEAN
    /\ weather = NoWeather
    /\ rain = 0
    /\ plan = << >>
    /\ idx = 1
    /\ sent = << >>
    /\ signLog = << >>
    /\ clock = StartMs
    /\ wire = << >>
    /\ inflight = 0
    /\ exc = "none"
    /\ ret = "none"
    /\ arg = 0
    /\ rgbOut = << >>
    /\ ctOut = 0

\* main() calls get_today_rain_percent_max_all, which sends the GET
WeatherSend ==
    /\ pc = "start"
    /\ pc' = "weather_wait"
    /\ wire' = Append(wire, Exchange("GET", "weather"))
    /\ inflight' = inflight + 1
    /\ UNCHANGED <<mode, weather, rain, plan, idx, sent, signLog,
                   clock, exc, ret, arg, rgbOut, ctOut>>

\* requests.get returns or raises; get_today_rain_percent_max_all returns or
\* raises; main() maps the percentage and enters set_lamp_ct or set_lamp_rgb
WeatherRecv ==
    /\ pc = "weather_wait"
    /\ \E resp \in WeatherResponses :
        LET got == get_today_rain_percent_max_all(resp)
        IN  /\ weather' = resp
            /\ inflight' = inflight - 1
            /\ IF got.exc # "none"
               THEN /\ pc' = "raised"
                    /\ exc' = got.exc
                    /\ UNCHANGED <<rain, plan>>
               ELSE /\ pc' = "post_ready"
                    /\ rain' = got.val
                    /\ plan' = LampCommands(mode, got.val)
                    /\ UNCHANGED exc
    /\ UNCHANGED <<mode, idx, sent, signLog, clock, wire, ret, arg,
                   rgbOut, ctOut>>

\* the nonces uuid4() has not drawn yet: its values are taken not to repeat
FreshNonces ==
    {NonceStr(n) : n \in 1..NoncePool} \ {signLog[i].nonce : i \in 1..Len(signLog)}

\* a bug post_command could have: the first request's signature is kept
SignFor_cached(nonce, now) ==
    IF signLog = << >> THEN generate_sign(ACCESS_TOKEN, SECRET, nonce, now)
    ELSE signLog[1]

\* what post_command signs with: one generate_sign call for this request
SignFor(nonce, now) == generate_sign(ACCESS_TOKEN, SECRET, nonce, now)

\* post_command signs the request and sends the POST; the millisecond clock
\* has ticked since the last reading, or has not
PostSend ==
    /\ pc = "post_ready"
    /\ \E nonce \in FreshNonces, tick \in {0, 1} :
        LET sg == SignFor(nonce, clock + tick)
        IN  /\ clock' = clock + tick
            /\ signLog' = Append(signLog, generate_sign(ACCESS_TOKEN, SECRET,
                                                        nonce, clock + tick))
            /\ sent' = Append(sent, PostRequest(DEVICE_ID, plan[idx].command,
                                                plan[idx].parameter, sg))
    /\ wire' = Append(wire, Exchange("POST", "switchbot"))
    /\ inflight' = inflight + 1
    /\ pc' = "post_wait"
    /\ UNCHANGED <<mode, weather, rain, plan, idx, exc, ret, arg,
                   rgbOut, ctOut>>

\* a bug set_lamp_* could have: the command is posted again
NextPost_repeat(i) == [pc |-> "post_ready", idx |-> i, ret |-> "none"]

\* set_lamp_* after post_command number i has returned: the next command, or,
\* after the last one, the return to main(), which returns True
NextPost(i) ==
    IF i = Len(plan) THEN [pc |-> "done", idx |-> i, ret |-> "True"]
    ELSE [pc |-> "post_ready", idx |-> i + 1, ret |-> "none"]

\* requests.post returns or raises; post_command returns or raises; after the
\* third command set_lamp_* returns and main() returns True
PostRecv ==
    /\ pc = "post_wait"
    /\ \E outcome \in DeviceOutcomes :
        LET got == post_command_result(outcome)
        IN  IF got.exc # "none"
            THEN /\ pc' = "raised"
                 /\ exc' = got.exc
                 /\ UNCHANGED <<idx, ret>>
            ELSE /\ pc' = NextPost(idx).pc
                 /\ idx' = NextPost(idx).idx
                 /\ ret' = NextPost(idx).ret
                 /\ UNCHANGED exc
    /\ inflight' = inflight - 1
    /\ UNCHANGED <<mode, weather, rain, plan, sent, signLog, clock, wire, arg,
                   rgbOut, ctOut>>

Next == WeatherSend \/ WeatherRecv \/ PostSend \/ PostRecv

Spec == Init /\ [][Next]_vars

(***************************************************************************)
(* The mapping functions on their own: every argument, each function once  *)
(***************************************************************************)
MapInit ==
    /\ pc = "map"
    /\ arg \in (0 - ArgBelow)..ArgAbove
    /\ rgbOut = << >>
    /\ ctOut = 0
    /\ mode = FALSE
    /\ weather = NoWeather
    /\ rain = 0
    /\ plan = << >>
    /\ idx = 1
    /\ sent = << >>
    /\ signLog = << >>
    /\ clock = StartMs
    /\ wire = << >>
    /\ inflight = 0
    /\ exc = "none"
    /\ ret = "none"

MapRgb ==
    /\ pc = "map"
    /\ rgbOut = << >>
    /\ rgbOut' = map_rain_to_rgb(arg)
    /\ UNCHANGED <<pc, mode, weather, rain, plan, idx, sent, signLog,
                   clock, wire, inflight, exc, ret, arg, ctOut>>

MapCt ==
    /\ pc = "map"
    /\ ctOut = 0
    /\ ctOut' = map_rain_to_ct(arg)
    /\ UNCHANGED <<pc, mode, weather, rain, plan, idx, sent, signLog,
                   clock, wire, inflight, exc, ret, arg, rgbOut>>

MapNext == MapRgb \/ MapCt

MapSpec == MapInit /\ [][MapNext]_vars

(***************************************************************************)
(* Vocabulary of the properties                                            *)
(***************************************************************************)
Terminal == pc \in {"done", "raised"}

\* the weather answer has been handled
WeatherDone == weather # NoWeather

\* an exception left get_today_rain_percent_max_all
WeatherRaised == pc = "raised" /\ sent = << >>

Commands == [i \in 1..Len(sent) |-> sent[i].body.command]

Parameters == [i \in 1..Len(sent) |-> sent[i].body.parameter]

ColourCommand == IF mode THEN "setColorTemperature" ELSE "setColor"

ExpectedCommands == <<"setBrightness", ColourCommand, "turnOn">>

IsPrefix(a, b) == Len(a) <= Len(b) /\ a = SubSeq(b, 1, Len(a))

AllDigits(s) == s # << >> /\ \A i \in 1..Len(s) : IsDigit(s[i])

\* the slots get_today_rain_percent_max_all reads
ReadSlots == {"T06_12", "T12_18", "T18_24"}

\* the percentage a slot value stands for: n for "n%", 0 for an absent or
\* empty slot or one without digits
ExpectedPct(j) ==
    IF j.t = "str" /\ \E p \in SlotPcts : j.v = PctString(p)
    THEN CHOOSE p \in SlotPcts : j.v = PctString(p)
    ELSE 0

\* a well-formed answer: chanceOfRain is an object whose read slots are
\* absent or strings
WeatherOk ==
    /\ weather.kind = "cor_mapping"
    /\ \A n \in ReadSlots : weather.cor[n].t \in {"absent", "str"}

\* the ways of failing that the claims list: the six the try block catches,
\* a chanceOfRain that is no mapping, a read slot that is no string
WeatherFailed ==
    \/ weather.kind \in CaughtKinds \cup {"cor_not_mapping"}
    \/ /\ weather.kind = "cor_mapping"
       /\ \E n \in ReadSlots : weather.cor[n].t \notin {"absent", "str"}

(***************************************************************************)
(* C1                                                                      *)
(***************************************************************************)
\* C1: every invocation of main() that has ended has posted exactly the three
\* commands setBrightness, the mode's colour command, turnOn, once each and
\* in this order (and no invocation ever posts anything but a prefix of them).
C1_ThreeCommandsInOrder ==
    /\ IsPrefix(Commands, ExpectedCommands)
    /\ Terminal => Commands = ExpectedCommands

\* C1, for the outcomes the claim lists (request error, statusCode not 100):
\* a run that reaches the end of main() has posted the three commands in order
C1_OrderWhenMainReturns ==
    /\ IsPrefix(Commands, ExpectedCommands)
    /\ pc = "done" => Commands = ExpectedCommands

(***************************************************************************)
(* C2                                                                      *)
(***************************************************************************)
\* C2: whenever the weather fetch has failed, in any of the listed ways,
\* get_today_rain_percent_max_all has returned 0 and raised nothing.
C2_DefaultsToZero ==
    (WeatherDone /\ WeatherFailed) => (~WeatherRaised /\ rain = 0)

\* C2, for the failures the try block catches: the function returns 0
C2_CaughtDefaultsToZero ==
    (WeatherDone /\ weather.kind \in CaughtKinds) => (~WeatherRaised /\ rain = 0)

(***************************************************************************)
(* C3                                                                      *)
(***************************************************************************)
\* C3: after a well-formed weather answer, rain is the maximum of the
\* percentages of T06_12, T12_18 and T18_24 (absent, empty and digitless
\* slots counting 0): it is one of them, at least each of them and at least
\* 0, no exception was raised, and no value of T00_06 would have changed it.
C3_MaxOfThreeSlots ==
    (WeatherDone /\ WeatherOk) =>
        LET pcts == {ExpectedPct(weather.cor[n]) : n \in ReadSlots}
        IN  /\ ~WeatherRaised
            /\ rain \in pcts
            /\ \A p \in pcts : rain >= p
            /\ rain >= 0
            /\ \A v \in SlotValues :
                get_today_rain_percent_max_all(
                    [weather EXCEPT !.cor["T00_06"] = v]) = Return(rain)

\* T00_06 holds the largest percentage of the answer and is not used; one
\* read slot is absent, one has no digits
C3_NightSlotLargest ==
    /\ pc = "post_ready"
    /\ weather.kind = "cor_mapping"
    /\ weather.cor["T00_06"] = Str(PctString(HighPct))
    /\ weather.cor["T06_12"] = Absent
    /\ weather.cor["T12_18"] = Str(UnknownPct)
    /\ weather.cor["T18_24"] = Str(PctString(LowPct))
    /\ rain = LowPct

(***************************************************************************)
(* C4                                                                      *)
(***************************************************************************)
\* the six buckets of the claim and their colours
Buckets == <<0..0, 1..20, 21..40, 41..60, 61..80, 81..100>>

BucketRgb ==
    <<(<<255, 127, 0>>), (<<255, 255, 0>>), (<<127, 255, 0>>),
      (<<0, 255, 255>>), (<<0, 127, 255>>), (<<0, 0, 255>>)>>

\* C4: for every percentage in 0..100, map_rain_to_rgb returns the colour of
\* the one bucket that holds it.
C4_SixBuckets ==
    (rgbOut # << >> /\ arg \in 0..PCT_MAX) =>
        /\ Cardinality({b \in 1..6 : arg \in Buckets[b]}) = 1
        /\ \A b \in 1..6 : arg \in Buckets[b] => rgbOut = BucketRgb[b]

C4_BucketEdge == arg = 61 /\ rgbOut = <<0, 127, 255>>

(***************************************************************************)
(* C5                                                                      *)
(***************************************************************************)
\* C5: map_rain_to_ct returns 2700 + 38 * rain for rain in 0..100 (38 more
\* for each percent), 2700 below 0 and 6500 above 100: always in 2700..6500.
C5_LinearCt ==
    ctOut # 0 =>
        /\ arg \in 0..PCT_MAX => ctOut = 2700 + 38 * arg
        /\ arg \in 0..(PCT_MAX - 1) => map_rain_to_ct(arg + 1) = ctOut + 38
        /\ arg < 0 => ctOut = 2700
        /\ arg > PCT_MAX => ctOut = 6500
        /\ ctOut \in 2700..6500

C5_InexactQuotient == arg = 29 /\ ctOut = 3802

(***************************************************************************)
(* C6                                                                      *)
(***************************************************************************)
\* C6: every POST carries the result of its own generate_sign call: there is
\* one call per request, the request's t, nonce and sign headers are what
\* that call returned, t is the clock's reading at that call, sign is the
\* HMAC-SHA256 under the secret of token + t + nonce, and no two requests
\* share a nonce or a signature.
C6_SignedPerRequest ==
    /\ Len(signLog) = Len(sent)
    /\ \A i \in 1..Len(sent) :
        LET h == sent[i].headers
        IN  /\ h.t = signLog[i].t
            /\ h.nonce = signLog[i].nonce
            /\ h.sign = signLog[i].sign
            /\ h.sign = HmacSha256B64(SECRET, ACCESS_TOKEN \o h.t \o h.nonce)
            /\ AllDigits(h.t)
            /\ ParseInt(h.t) \in StartMs..clock
            /\ i = Len(sent) => ParseInt(h.t) = clock
            /\ \A j \in 1..Len(sent) :
                /\ i < j => ParseInt(h.t) <= ParseInt(sent[j].headers.t)
                /\ i # j => /\ h.nonce # sent[j].headers.nonce
                            /\ h.sign # sent[j].headers.sign

\* three requests in the same millisecond: equal t, distinct nonces
C6_SameMillisecond ==
    /\ Len(sent) = 3
    /\ sent[1].headers.t = sent[3].headers.t
    /\ sent[1].headers.nonce # sent[3].headers.nonce

(***************************************************************************)
(* C7                                                                      *)
(***************************************************************************)
\* the colour the mode's mapping gives for rain, as the parameter's text
ColourParameter ==
    IF mode THEN Decimal(map_rain_to_ct(rain))
    ELSE LET c == map_rain_to_rgb(rain)
         IN  Decimal(c[1]) \o <<":">> \o Decimal(c[2]) \o <<":">> \o Decimal(c[3])

OtherColourCommand == IF mode THEN "setColor" ELSE "setColorTemperature"

\* C7: an invocation never sends the other mode's colour command, and one that
\* has ended has sent the mode's colour command exactly once, with the colour
\* its mapping gives for rain.
C7_OneColourPath ==
    /\ \A i \in 1..Len(sent) : Commands[i] # OtherColourCommand
    /\ Terminal =>
        /\ Cardinality({i \in 1..Len(sent) : Commands[i] = ColourCommand}) = 1
        /\ \A i \in 1..Len(sent) :
            Commands[i] = ColourCommand => Parameters[i] = ColourParameter

\* C7, for the invocations that reach the end of main()
C7_OneColourPathWhenMainReturns ==
    /\ \A i \in 1..Len(sent) : Commands[i] # OtherColourCommand
    /\ pc = "done" =>
        /\ Cardinality({i \in 1..Len(sent) : Commands[i] = ColourCommand}) = 1
        /\ \A i \in 1..Len(sent) :
            Commands[i] = ColourCommand => Parameters[i] = ColourParameter

(***************************************************************************)
(* C8                                                                      *)
(***************************************************************************)
ExpectedWire ==
    <<Exchange("GET", "weather"), Exchange("POST", "switchbot"),
      Exchange("POST", "switchbot"), Exchange("POST", "switchbot")>>

\* C8 as stated: an invocation that has returned has performed exactly two
\* outbound HTTP exchanges.
C8_ExactlyTwoExchanges == pc = "done" => Len(wire) = 2

\* C8 as amended: the exchanges are one weather GET followed by at most three
\* device POSTs, one per command and none repeated, with at most two services;
\* an exchange starts only when none is in flight; an invocation that has
\* returned has performed exactly four.
C8_FourSequentialExchanges ==
    /\ inflight \in {0, 1}
    /\ inflight = 1 <=> pc \in {"weather_wait", "post_wait"}
    /\ IsPrefix(wire, ExpectedWire)
    /\ Len(wire) = (IF pc = "start" THEN 0 ELSE 1) + Len(sent)
    /\ Len(sent) <= idx
    /\ Cardinality({wire[i].service : i \in 1..Len(wire)}) <= 2
    /\ pc = "done" => Len(wire) = 4

C8_ReturnedAfterFour ==
    pc = "done" /\ Len(wire) = 4 /\ inflight = 0 /\ Len(sent) = 3

(***************************************************************************)
(* C9                                                                      *)
(***************************************************************************)
\* C9: whatever the weather request and the three device requests end in,
\* no exception escapes main(), and main() ends by returning True.
C9_MainReturnsTrue ==
    /\ exc = "none"
    /\ pc # "raised"
    /\ Terminal => ret = "True"

\* C9, for the runs in which no exception is raised: main() returns True
C9_TrueWhenMainReturns ==
    /\ pc = "done" => (ret = "True" /\ exc = "none" /\ inflight = 0)
    /\ pc = "raised" <=> exc # "none"
    /\ ret = "True" => pc = "done"

(***************************************************************************)
(* C10                                                                     *)
(***************************************************************************)
ColonAt(s) == {i \in 1..Len(s) : s[i] = ":"}

\* the fields of "r:g:b"
RgbFields(s) ==
    LET a == CHOOSE i \in ColonAt(s) : \A j \in ColonAt(s) : i <= j
        b == CHOOSE i \in ColonAt(s) : \A j \in ColonAt(s) : i >= j
    IN  <<SubSeq(s, 1, a - 1), SubSeq(s, a + 1, b - 1), SubSeq(s, b + 1, Len(s))>>

\* the parameters sent are in the device's ranges
ParametersInRange ==
    \A i \in 1..Len(sent) :
        LET c == Commands[i]
            q == Parameters[i]
        IN  /\ c = "setBrightness" =>
                (AllDigits(q) /\ ParseInt(q) \in 1..100 /\ ParseInt(q) = 100)
            /\ c = "setColor" =>
                /\ Cardinality(ColonAt(q)) = 2
                /\ \A k \in 1..3 : /\ AllDigits(RgbFields(q)[k])
                                   /\ ParseInt(RgbFields(q)[k]) \in 0..255
            /\ c = "setColorTemperature" =>
                (AllDigits(q) /\ ParseInt(q) \in 2700..6500)
            /\ c = "turnOn" => q = DEFAULT_PARAMETER

\* the three commands of a 0% day: brightness 100, orange or 2700 K, on
ZeroPlan ==
    <<Cmd("setBrightness", <<"1", "0", "0">>),
      (IF mode THEN Cmd("setColorTemperature", <<"2", "7", "0", "0">>)
       ELSE Cmd("setColor", <<"2", "5", "5", ":", "1", "2", "7", ":", "0">>)),
      Cmd("turnOn", DEFAULT_PARAMETER)>>

\* C10: every parameter sent is in the device's range, and a failed fetch
\* leads to the same three commands as a reported 0%: brightness 100, orange
\* 255:127:0 or 2700 K, on.
C10_ValidParameters ==
    /\ ParametersInRange
    /\ (WeatherDone /\ WeatherOk /\ rain = 0) => plan = ZeroPlan
    /\ (WeatherDone /\ WeatherFailed) => (~WeatherRaised /\ plan = ZeroPlan)

\* C10, without the failures that get_today_rain_percent_max_all lets escape
C10_ValidParametersWhenCaught ==
    /\ ParametersInRange
    /\ (WeatherDone /\ WeatherOk /\ rain = 0) => plan = ZeroPlan
    /\ (WeatherDone /\ weather.kind \in CaughtKinds) => plan = ZeroPlan

C10_AboveHundredSent ==
    /\ pc = "done"
    /\ rain = HighPct
    /\ mode
    /\ Parameters[2] = <<"6", "5", "0", "0">>

====
